---- MODULE Spec2Model ----
(***************************************************************************)
(* Model of stark/extract.py: aperture_extract, flux_coo, norm_flux_coo.   *)
(*                                                                         *)
(* Floating point values are modelled as exact rationals [n, d] in lowest  *)
(* terms with d > 0; the value NaN (mean of an empty slice, 0/0) is the    *)
(* record with d = 0.  Arrays keep the 0-based indices of the source:      *)
(* frame[integration][row][col], ord_pos[integration][col],                *)
(* col_array_pos[integration][col][0..1].  pix_array is a sequence of      *)
(* 4-tuples; source row k of pix_array is element k+1, source field j is   *)
(* component j+1.                                                          *)
(***************************************************************************)
EXTENDS Integers, Sequences, FiniteSets, TLC

(***************************************************************************)
(* Bounds of the enumerated inputs.                                        *)
(***************************************************************************)
NInts == 2
NCols == 2
NRows == 4
PosDen == 4

(***************************************************************************)
(* Rational arithmetic standing for float64 arithmetic.                    *)
(***************************************************************************)
Abs(x) == IF x < 0 THEN -x ELSE x

RECURSIVE GCD(_, _)
GCD(a, b) == IF b = 0 THEN a ELSE GCD(b, a % b)

NaN == [n |-> 0, d |-> 0]

Rat(n, d) ==
    IF d = 0 THEN NaN
    ELSE LET s == IF d < 0 THEN -1 ELSE 1
             g == GCD(Abs(n), Abs(d))
         IN  [n |-> (s * n) \div g, d |-> (s * d) \div g]

IsNaN(a) == a.d = 0
Zero == Rat(0, 1)
One == Rat(1, 1)
IntToRat(k) == Rat(k, 1)

RAdd(a, b) == IF IsNaN(a) \/ IsNaN(b) THEN NaN ELSE Rat(a.n * b.d + b.n * a.d, a.d * b.d)
RSub(a, b) == IF IsNaN(a) \/ IsNaN(b) THEN NaN ELSE Rat(a.n * b.d - b.n * a.d, a.d * b.d)
RMul(a, b) == IF IsNaN(a) \/ IsNaN(b) THEN NaN ELSE Rat(a.n * b.n, a.d * b.d)
RDiv(a, b) == IF IsNaN(a) \/ IsNaN(b) THEN NaN ELSE Rat(a.n * b.d, a.d * b.n)
\* comparisons with NaN are false, as in IEEE arithmetic
RLess(a, b) == ~IsNaN(a) /\ ~IsNaN(b) /\ a.n * b.d < b.n * a.d
RGeq(a, b) == ~IsNaN(a) /\ ~IsNaN(b) /\ a.n * b.d >= b.n * a.d

\* Python 3 round(x) with one argument: nearest integer, ties to even.
Round(x) ==
    LET f == x.n \div x.d
        twice == 2 * (x.n - f * x.d)
    IN  IF twice < x.d THEN f
        ELSE IF twice > x.d THEN f + 1
        ELSE IF f % 2 = 0 THEN f ELSE f + 1

\* a[i0:i1] on an axis of length len: the row indices selected, in order.
PySliceIdx(i0, i1, len) ==
    LET fix(i) == IF i < 0 THEN (IF i + len < 0 THEN 0 ELSE i + len)
                  ELSE IF i > len THEN len ELSE i
        lo == fix(i0)
        hi == fix(i1)
    IN  IF hi > lo THEN [k \in 1..(hi - lo) |-> lo + k - 1] ELSE << >>

\* range(i0, i1)
PyRange(i0, i1) == IF i1 > i0 THEN [k \in 1..(i1 - i0) |-> i0 + k - 1] ELSE << >>

RECURSIVE RSum(_)
RSum(s) == IF s = << >> THEN Zero ELSE RAdd(Head(s), RSum(Tail(s)))

\* np.mean: NaN for an empty slice
RMean(s) == IF s = << >> THEN NaN ELSE RDiv(RSum(s), IntToRat(Len(s)))

Shape(a) == Cardinality(DOMAIN a)

(***************************************************************************)
(* aperture_extract                                                        *)
(***************************************************************************)
\* variant of ApSkip: the upper test written p > nrows
ApSkipOpenUpper(p, nrows) == RLess(p, Zero) \/ RLess(IntToRat(nrows), p)

\* line 49: the column is skipped
ApSkip(p, nrows) == RLess(p, Zero) \/ RGeq(p, IntToRat(nrows))

\* variant of ApWindow: the upper bound clamped to nrows, the end of the axis
ApWindowToEnd(p, ap_rad, nrows) ==
    LET r0 == Round(RSub(p, ap_rad))
        r1 == Round(RAdd(p, ap_rad))
    IN  [i0 |-> IF r0 < 0 THEN 0 ELSE r0,
         i1 |-> IF r1 >= nrows THEN nrows ELSE r1]

\* lines 51-57: the window after clamping
ApWindow(p, ap_rad, nrows) ==
    LET r0 == Round(RSub(p, ap_rad))
        r1 == Round(RAdd(p, ap_rad))
    IN  [i0 |-> IF r0 < 0 THEN 0 ELSE r0,
         i1 |-> IF r1 >= nrows THEN nrows - 1 ELSE r1]

\* a[i0:i1, col] of a 2D array
ColSlice(a, i0, i1, col) ==
    LET idx == PySliceIdx(i0, i1, Shape(a))
    IN  [k \in 1..Len(idx) |-> a[idx[k]][col]]

\* variant of ApReduce: the mean rescaled by the length of the window used
ApReduceByWindow(a, w, col, nslitpix, uniform) ==
    IF uniform THEN RMul(RMean(ColSlice(a, w.i0, w.i1, col)), IntToRat(w.i1 - w.i0))
    ELSE RSum(ColSlice(a, w.i0, w.i1, col))

\* lines 58-63: the value stored for one column of one array
ApReduce(a, w, col, nslitpix, uniform) ==
    IF uniform THEN RMul(RMean(ColSlice(a, w.i0, w.i1, col)), nslitpix)
    ELSE RSum(ColSlice(a, w.i0, w.i1, col))

aperture_extract(frame2d, variance2d, ord_pos1d, ap_rad, uniform) ==
    LET nslitpix == RMul(ap_rad, IntToRat(2))
        nrows == Shape(frame2d)
        ncols == Shape(frame2d[0])
        w(col) == ApWindow(ord_pos1d[col], ap_rad, nrows)
    IN  [spec |-> [col \in 0..(ncols - 1) |->
                     IF ApSkip(ord_pos1d[col], nrows) THEN Zero
                     ELSE ApReduce(frame2d, w(col), col, nslitpix, uniform)],
         var  |-> [col \in 0..(ncols - 1) |->
                     IF ApSkip(ord_pos1d[col], nrows) THEN Zero
                     ELSE ApReduce(variance2d, w(col), col, nslitpix, uniform)]]

(***************************************************************************)
(* flux_coo                                                                *)
(***************************************************************************)
\* line 108: the column is skipped
CooSkip(p, nrows) == RLess(p, Zero) \/ RGeq(p, IntToRat(nrows))

\* lines 110-116: the window after clamping
CooWindow(p, ap_rad, nrows) ==
    LET r0 == Round(RSub(p, ap_rad))
        r1 == Round(RAdd(p, ap_rad))
    IN  [i0 |-> IF r0 < 0 THEN 0 ELSE r0,
         i1 |-> IF r1 >= nrows THEN nrows - 1 ELSE r1]

\* line 117
CooNpix(w) == w.i1 - w.i0

\* variant of CooColArray: the column field counted from 1
CooColArrayOneBased(frame2d, variance2d, p, w, col) ==
    LET rows == PyRange(w.i0, w.i1)
        flux == ColSlice(frame2d, w.i0, w.i1, col)
        vars == ColSlice(variance2d, w.i0, w.i1, col)
    IN  [k \in 1..CooNpix(w) |->
            << RSub(IntToRat(rows[k]), p), flux[k], vars[k], IntToRat(col + 1) >>]

\* lines 118-122: the (npix, 4) block of one column
CooColArray(frame2d, variance2d, p, w, col) ==
    LET rows == PyRange(w.i0, w.i1)
        flux == ColSlice(frame2d, w.i0, w.i1, col)
        vars == ColSlice(variance2d, w.i0, w.i1, col)
    IN  [k \in 1..CooNpix(w) |->
            << RSub(IntToRat(rows[k]), p), flux[k], vars[k], IntToRat(col) >>]

\* np.zeros((npix, 4)) raises ValueError for npix < 0; filling a block from a
\* slice of another length raises ValueError too.
CooRaises(frame2d, w, col) ==
    \/ CooNpix(w) < 0
    \/ Len(ColSlice(frame2d, w.i0, w.i1, col)) # CooNpix(w)

\* variant of CooStep: the count recorded is the width before clamping
CooStepRawCount(st, frame, variance, ord_pos, ap_rad, integration, col) ==
    LET nrows == Shape(frame[0])
        p == ord_pos[integration][col]
        w == CooWindow(p, ap_rad, nrows)
        st1 == [st EXCEPT !.col_array_pos[integration][col][0] = st.col_pos]
    IN  IF CooSkip(p, nrows) THEN st1
        ELSE IF CooRaises(frame[integration], w, col) THEN [st1 EXCEPT !.raised = TRUE]
        ELSE [st1 EXCEPT !.col_array_pos[integration][col][1] =
                               Round(RAdd(p, ap_rad)) - Round(RSub(p, ap_rad)),
                         !.col_pos = @ + CooNpix(w),
                         !.pix_list = Append(@, CooColArray(frame[integration],
                                                 variance[integration], p, w, col))]

\* variant of CooStep: the cursor starts again at 0 with every integration
CooStepResetCursor(st, frame, variance, ord_pos, ap_rad, integration, col) ==
    LET nrows == Shape(frame[0])
        p == ord_pos[integration][col]
        w == CooWindow(p, ap_rad, nrows)
        cursor == IF col = 0 THEN 0 ELSE st.col_pos
        st1 == [st EXCEPT !.col_array_pos[integration][col][0] = cursor,
                          !.col_pos = cursor]
    IN  IF CooSkip(p, nrows) THEN st1
        ELSE IF CooRaises(frame[integration], w, col) THEN [st1 EXCEPT !.raised = TRUE]
        ELSE [st1 EXCEPT !.col_array_pos[integration][col][1] = CooNpix(w),
                         !.col_pos = @ + CooNpix(w),
                         !.pix_list = Append(@, CooColArray(frame[integration],
                                                 variance[integration], p, w, col))]

\* lines 106-125: the body of the loop for one (integration, col)
CooStep(st, frame, variance, ord_pos, ap_rad, integration, col) ==
    LET nrows == Shape(frame[0])
        p == ord_pos[integration][col]
        w == CooWindow(p, ap_rad, nrows)
        st1 == [st EXCEPT !.col_array_pos[integration][col][0] = st.col_pos]
    IN  IF CooSkip(p, nrows) THEN st1
        ELSE IF CooRaises(frame[integration], w, col) THEN [st1 EXCEPT !.raised = TRUE]
        ELSE [st1 EXCEPT !.col_array_pos[integration][col][1] = CooNpix(w),
                         !.col_pos = @ + CooNpix(w),
                         !.pix_list = Append(@, CooColArray(frame[integration],
                                                 variance[integration], p, w, col))]

\* lines 128-134: one contiguous array out of the list of blocks
RECURSIVE Flatten(_)
Flatten(pix_list) ==
    IF pix_list = << >> THEN << >> ELSE Head(pix_list) \o Flatten(Tail(pix_list))

\* lines 97-135.  raised = TRUE: the call ended in ValueError and returned nothing.
flux_coo(frame, variance, ord_pos, ap_rad) ==
    LET nints == Shape(frame)
        ncols == Shape(frame[0][0])
        st0 == [col_pos |-> 0, pix_list |-> << >>, raised |-> FALSE,
                col_array_pos |-> [i \in 0..(nints - 1) |->
                                    [c \in 0..(ncols - 1) |-> [j \in 0..1 |-> 0]]]]
        RECURSIVE Loop(_, _)
        Loop(k, st) ==
            IF k = nints * ncols \/ st.raised THEN st
            ELSE Loop(k + 1, CooStep(st, frame, variance, ord_pos, ap_rad,
                                     k \div ncols, k % ncols))
        fin == Loop(0, st0)
    IN  IF fin.raised
        THEN [raised |-> TRUE, pix_array |-> << >>, col_array_pos |-> << >>]
        ELSE [raised |-> FALSE, pix_array |-> Flatten(fin.pix_list),
              col_array_pos |-> fin.col_array_pos]

(***************************************************************************)
(* norm_flux_coo                                                           *)
(***************************************************************************)
\* line 164
min_norm == Rat(1, 100)

\* variant of NormFloor: no floor
NormFloorNone(norm_sum) == norm_sum

\* line 173: np.maximum(norm_sum, min_norm)
NormFloor(norm_sum) == IF RLess(norm_sum, min_norm) THEN min_norm ELSE norm_sum

\* a[ind0:ind1, j] of the sample array (j is the source field, 0..3)
FieldSlice(a, ind0, ind1, j) ==
    LET idx == PySliceIdx(ind0, ind1, Len(a))
    IN  [k \in 1..Len(idx) |-> a[idx[k] + 1][j + 1]]

\* lines 169-172
NormSum(pix, ind0, ind1, spec, integration, col) ==
    IF spec.given THEN spec.val[integration][col]
    ELSE RSum(FieldSlice(pix, ind0, ind1, 1))

\* lines 174-175: the two slice assignments into norm_array
NormAssign(norm, pix, ind0, ind1, norm_sum) ==
    LET idx == PySliceIdx(ind0, ind1, Len(pix))
        hit(k) == \E m \in 1..Len(idx) : idx[m] + 1 = k
    IN  [k \in 1..Len(norm) |->
            IF hit(k)
            THEN << norm[k][1],
                    RDiv(pix[k][2], norm_sum),
                    RDiv(pix[k][3], RMul(norm_sum, norm_sum)),
                    norm[k][4] >>
            ELSE norm[k]]

\* variant of NormStep: norm_array is the caller's array, not a copy of it
NormStepInPlace(st, col_array_pos, spec, integration, col) ==
    LET ind0 == col_array_pos[integration][col][0]
        ind1 == ind0 + col_array_pos[integration][col][1]
        norm_sum == NormFloor(NormSum(st.pix_array, ind0, ind1, spec, integration, col))
        written == NormAssign(st.norm_array, st.pix_array, ind0, ind1, norm_sum)
    IN  [st EXCEPT !.norm_array = written, !.pix_array = written]

\* lines 167-175: the body of the loop for one (integration, col); the state
\* is the pair of array objects, the caller's pix_array and the local norm_array
NormStep(st, col_array_pos, spec, integration, col) ==
    LET ind0 == col_array_pos[integration][col][0]
        ind1 == ind0 + col_array_pos[integration][col][1]
        norm_sum == NormFloor(NormSum(st.pix_array, ind0, ind1, spec, integration, col))
    IN  [st EXCEPT !.norm_array = NormAssign(@, st.pix_array, ind0, ind1, norm_sum)]

\* lines 161-176
norm_flux_coo(pix, col_array_pos, spec) ==
    LET nints == Shape(col_array_pos)
        ncols == Shape(col_array_pos[0])
        st0 == [pix_array |-> pix, norm_array |-> pix]
        RECURSIVE Loop(_, _)
        Loop(k, st) ==
            IF k = nints * ncols THEN st
            ELSE Loop(k + 1, NormStep(st, col_array_pos, spec, k \div ncols, k % ncols))
    IN  Loop(0, st0)

(***************************************************************************)
(* The inputs enumerated, and the caller's pipeline                        *)
(*   aperture_extract (box sum), aperture_extract (uniform), flux_coo,     *)
(*   norm_flux_coo.                                                        *)
(***************************************************************************)
Ints == 0..(NInts - 1)
Cols == 0..(NCols - 1)
Rows == 0..(NRows - 1)

\* trace of the order: a start position at column 0 of integration 0, on a
\* grid of 1/PosDen from just below row 0 to just above the last row, a
\* slope per column and a drift per integration
StartPositions == { Rat(q, PosDen) : q \in (-1)..(NRows * PosDen + 1) }
Slopes == { Rat(-1, 1), Zero, Rat(5, 4) }
Drifts == { Zero, Rat(1, 2) }
Trace(p0, slope, drift) ==
    [i \in Ints |-> [c \in Cols |->
        RAdd(p0, RAdd(RMul(slope, IntToRat(c)), RMul(drift, IntToRat(i))))]]
Traces == { Trace(p0, slope, drift) : p0 \in StartPositions, slope \in Slopes, drift \in Drifts }

Radii == { Rat(1, 4), Rat(1, 2), One, Rat(3, 2) }

Weight(i, row, c) == 1 + row + NRows * c + NRows * NCols * i
ConstCube(v) == [i \in Ints |-> [row \in Rows |-> [c \in Cols |-> v]]]
RampCube(scale, shift) ==
    [i \in Ints |-> [row \in Rows |-> [c \in Cols |-> IntToRat(scale * Weight(i, row, c) - shift)]]]
\* pairs << frame, variance >>
Cubes == { << ConstCube(One), ConstCube(One) >>,
           << ConstCube(Rat(1, 200)), ConstCube(IntToRat(2)) >>,
           << ConstCube(Rat(1, 200)), RampCube(2, 0) >>,
           << RampCube(1, 2), RampCube(2, 0) >> }

VARIABLES
    frame, variance, ord_pos, ap_rad,       \* the caller's inputs
    pc,                                     \* position of the caller in the pipeline
    ext_int,                                \* the integration given to aperture_extract
    spec_sum, var_sum,                      \* aperture_extract(..., uniform = False)
    spec_uni, var_uni,                      \* aperture_extract(..., uniform = True)
    pix_array, col_array_pos,               \* flux_coo(...)
    norm_pos, norm_spec,                    \* index table and spec given to norm_flux_coo
    norm_array                              \* norm_flux_coo(...)

vars == << frame, variance, ord_pos, ap_rad, pc, ext_int, spec_sum, var_sum,
           spec_uni, var_uni, pix_array, col_array_pos, norm_pos, norm_spec, norm_array >>

inputs == << frame, variance, ord_pos, ap_rad >>

NoSpec == [given |-> FALSE, val |-> << >>]

Init ==
    /\ \E cube \in Cubes : frame = cube[1] /\ variance = cube[2]
    /\ ord_pos \in Traces
    /\ ap_rad \in Radii
    /\ pc = "start"
    /\ ext_int = 0
    /\ spec_sum = << >> /\ var_sum = << >>
    /\ spec_uni = << >> /\ var_uni = << >>
    /\ pix_array = << >> /\ col_array_pos = << >>
    /\ norm_pos = << >> /\ norm_spec = NoSpec
    /\ norm_array = << >>

\* spec, var = aperture_extract(frame[i], variance[i], ord_pos[i], ap_rad)
ExtractSum(i) ==
    /\ pc = "start"
    /\ LET out == aperture_extract(frame[i], variance[i], ord_pos[i], ap_rad, FALSE)
       IN  spec_sum' = out.spec /\ var_sum' = out.var
    /\ ext_int' = i
    /\ pc' = "summed"
    /\ UNCHANGED << inputs, spec_uni, var_uni, pix_array, col_array_pos,
                    norm_pos, norm_spec, norm_array >>

\* spec, var = aperture_extract(frame[i], variance[i], ord_pos[i], ap_rad, uniform = True)
ExtractUniform ==
    /\ pc = "summed"
    /\ LET out == aperture_extract(frame[ext_int], variance[ext_int], ord_pos[ext_int],
                                   ap_rad, TRUE)
       IN  spec_uni' = out.spec /\ var_uni' = out.var
    /\ pc' = "extracted"
    /\ UNCHANGED << inputs, ext_int, spec_sum, var_sum, pix_array, col_array_pos,
                    norm_pos, norm_spec, norm_array >>

\* pix_array, col_array_pos = flux_coo(frame, variance, ord_pos, ap_rad)
Collect ==
    /\ pc = "extracted"
    /\ LET out == flux_coo(frame, variance, ord_pos, ap_rad)
       IN  /\ pc' = IF out.raised THEN "raised" ELSE "collected"
           /\ pix_array' = out.pix_array
           /\ col_array_pos' = out.col_array_pos
    /\ UNCHANGED << inputs, ext_int, spec_sum, var_sum, spec_uni, var_uni,
                    norm_pos, norm_spec, norm_array >>

\* col_array_pos[lo:]
TableSlice(lo) == [i \in 0..(Shape(col_array_pos) - lo - 1) |-> col_array_pos[lo + i]]

\* the sum of the flux samples of each run of an index table
ColumnSum(pix, table) ==
    [i \in DOMAIN table |-> [c \in DOMAIN table[i] |->
        RSum(FieldSlice(pix, table[i][c][0], table[i][c][0] + table[i][c][1], 1))]]

RefSpecs(table) ==
    { NoSpec,
      [given |-> TRUE, val |-> ColumnSum(pix_array, table)],
      [given |-> TRUE, val |-> [i \in DOMAIN table |-> [c \in DOMAIN table[i] |-> IntToRat(2)]]] }

\* norm_array = norm_flux_coo(pix_array, col_array_pos[lo:], spec)
Normalize(lo) ==
    /\ pc = "collected"
    /\ \E spec \in RefSpecs(TableSlice(lo)) :
         LET out == norm_flux_coo(pix_array, TableSlice(lo), spec)
         IN  /\ norm_pos' = TableSlice(lo)
             /\ norm_spec' = spec
             /\ norm_array' = out.norm_array
             /\ pix_array' = out.pix_array
    /\ pc' = "normalized"
    /\ UNCHANGED << inputs, ext_int, spec_sum, var_sum, spec_uni, var_uni, col_array_pos >>

Next ==
    \/ \E i \in Ints : ExtractSum(i)
    \/ ExtractUniform
    \/ Collect
    \/ \E lo \in Ints : Normalize(lo)

Spec == Init /\ [][Next]_vars

(***************************************************************************)
(* Vocabulary of the properties                                            *)
(***************************************************************************)
Extracted == pc \in { "extracted", "collected", "raised", "normalized" }
Collected == pc \in { "collected", "normalized" }

\* the trace position lies outside [0, L)
OutOfRange(p) == RLess(p, Zero) \/ ~RLess(p, IntToRat(NRows))

\* the bounds before clamping
RawLo(p) == Round(RSub(p, ap_rad))
RawHi(p) == Round(RAdd(p, ap_rad))
\* the window of the windowing policy: max(i0, 0), min(i1, L - 1)
PolicyLo(p) == IF RawLo(p) > 0 THEN RawLo(p) ELSE 0
PolicyHi(p) == IF RawHi(p) < NRows - 1 THEN RawHi(p) ELSE NRows - 1

Start(table, i, c) == table[i][c][0]
Count(table, i, c) == table[i][c][1]

\* the total of the counts of the first k pairs in integration-major order
RECURSIVE CountBefore(_, _)
CountBefore(table, k) ==
    IF k = 0 THEN 0
    ELSE CountBefore(table, k - 1) + Count(table, (k - 1) \div NCols, (k - 1) % NCols)

\* source rows of pix_array of the run of (i, c)
Run(table, i, c) == Start(table, i, c)..(Start(table, i, c) + Count(table, i, c) - 1)

\* C1: every column of aperture_extract whose trace position is outside
\* [0, L) has spectrum 0 and variance 0, with uniform = False and with
\* uniform = True.
C1_OutOfRangeIsZero ==
    \A c \in Cols :
        OutOfRange(ord_pos[ext_int][c]) =>
            /\ pc # "start" => spec_sum[c] = Zero /\ var_sum[c] = Zero
            /\ Extracted => spec_uni[c] = Zero /\ var_uni[c] = Zero

C1_Witness ==
    /\ pc = "extracted"
    /\ \E c \in Cols : OutOfRange(ord_pos[ext_int][c])
    /\ \E c \in Cols : ~OutOfRange(ord_pos[ext_int][c]) /\ spec_sum[c] # Zero
                        /\ spec_uni[c] # Zero

C2_WitnessAllInvalid ==
    /\ pc = "collected"
    /\ \A i \in Ints, c \in Cols : OutOfRange(ord_pos[i][c])
    /\ pix_array = << >>

C2_WitnessNoneInvalid ==
    /\ pc = "collected"
    /\ \A i \in Ints, c \in Cols : ~OutOfRange(ord_pos[i][c]) /\ Count(col_array_pos, i, c) > 0

\* C3: within an integration the starting offsets do not decrease with the
\* column, and every sample of the slice [start, start+count) of a column
\* carries that column in its column field.
C3_RunsOrderedAndLabelled ==
    Collected =>
        /\ \A i \in Ints : \A c \in Cols :
              c + 1 \in Cols => Start(col_array_pos, i, c) <= Start(col_array_pos, i, c + 1)
        /\ \A i \in Ints : \A c \in Cols : \A k \in Run(col_array_pos, i, c) :
              /\ k + 1 \in DOMAIN pix_array
              /\ pix_array[k + 1][4] = IntToRat(c)

C3_Witness ==
    /\ pc = "collected"
    /\ \E i \in Ints : \E c \in Cols :
          /\ c > 0
          /\ Count(col_array_pos, i, c) > 1
          /\ Count(col_array_pos, i, c - 1) > 0

\* C4: for a trace position p in [radius, L - radius) the window used has
\* width round(p + radius) - round(p - radius): clamping changes neither
\* bound; with 5 rows, position 2 and radius 1 the window is rows [1, 3).
C4_InteriorWindowUnclamped ==
    /\ ApWindow(IntToRat(2), One, 5) = [i0 |-> 1, i1 |-> 3]
    /\ CooWindow(IntToRat(2), One, 5) = [i0 |-> 1, i1 |-> 3]
    /\ \A c \in Cols :
          LET p == ord_pos[ext_int][c]
          IN  (Extracted /\ RGeq(p, ap_rad) /\ RLess(p, RSub(IntToRat(NRows), ap_rad))) =>
                 ApWindow(p, ap_rad, NRows) = [i0 |-> RawLo(p), i1 |-> RawHi(p)]
    /\ \A i \in Ints : \A c \in Cols :
          LET p == ord_pos[i][c]
          IN  (Collected /\ RGeq(p, ap_rad) /\ RLess(p, RSub(IntToRat(NRows), ap_rad))) =>
                 Count(col_array_pos, i, c) = RawHi(p) - RawLo(p)

\* C10: for a positive radius and an in-range trace position the clamped
\* bounds satisfy 0 <= i0 <= i1 <= L - 1, and flux_coo does not fail.
C10_WindowWellFormed ==
    /\ pc # "raised"
    /\ \A c \in Cols :
          LET p == ord_pos[ext_int][c]
              wa == ApWindow(p, ap_rad, NRows)
          IN  (Extracted /\ ~OutOfRange(p)) =>
                 0 <= wa.i0 /\ wa.i0 <= wa.i1 /\ wa.i1 <= NRows - 1
    /\ \A i \in Ints : \A c \in Cols :
          LET p == ord_pos[i][c]
              wc == CooWindow(p, ap_rad, NRows)
          IN  (Collected /\ ~OutOfRange(p)) =>
                 /\ 0 <= wc.i0 /\ wc.i0 <= wc.i1 /\ wc.i1 <= NRows - 1
                 /\ Count(col_array_pos, i, c) = wc.i1 - wc.i0

C10_Reached ==
    pc = "raised"

\* C5: with the per-column flux sums as reference spectrum the normalized
\* flux of a column's run sums to 1 when the column sum is >= min_norm and
\* to column_sum / min_norm < 1 when it is below; each sample has
\* flux' = flux / norm and variance' = variance / norm^2 with
\* norm = max(reference, min_norm).
C5_NormalizedSums ==
    (pc = "normalized" /\ norm_spec.given) =>
        \A i \in DOMAIN norm_pos : \A c \in Cols :
            LET ref == norm_spec.val[i][c]
                norm == IF RLess(min_norm, ref) THEN ref ELSE min_norm
                column_sum == ColumnSum(pix_array, norm_pos)[i][c]
                total == RSum(FieldSlice(norm_array, Start(norm_pos, i, c),
                                         Start(norm_pos, i, c) + Count(norm_pos, i, c), 1))
            IN  /\ \A k \in Run(norm_pos, i, c) :
                      /\ RMul(norm_array[k + 1][2], norm) = pix_array[k + 1][2]
                      /\ RMul(norm_array[k + 1][3], RMul(norm, norm)) = pix_array[k + 1][3]
                /\ norm_spec.val = ColumnSum(pix_array, norm_pos) =>
                      /\ RGeq(column_sum, min_norm) => total = One
                      /\ RLess(column_sum, min_norm) =>
                            /\ RMul(total, min_norm) = column_sum
                            /\ RLess(total, One)

C5_Witness ==
    /\ pc = "normalized"
    /\ norm_spec.given
    /\ norm_spec.val = ColumnSum(pix_array, norm_pos)
    /\ \E i \in DOMAIN norm_pos : \E c \in Cols :
          /\ Count(norm_pos, i, c) > 1
          /\ RLess(min_norm, norm_spec.val[i][c])
    /\ \E i \in DOMAIN norm_pos : \E c \in Cols :
          /\ Count(norm_pos, i, c) > 0
          /\ RLess(Zero, norm_spec.val[i][c])
          /\ RLess(norm_spec.val[i][c], min_norm)

C5_WitnessNegative ==
    /\ pc = "normalized"
    /\ norm_spec.given
    /\ norm_spec.val = ColumnSum(pix_array, norm_pos)
    /\ \E i \in DOMAIN norm_pos : \E c \in Cols :
          Count(norm_pos, i, c) > 0 /\ RLess(norm_spec.val[i][c], Zero)

C5_WitnessZero ==
    /\ pc = "normalized"
    /\ norm_spec.given
    /\ norm_spec.val = ColumnSum(pix_array, norm_pos)
    /\ \E i \in DOMAIN norm_pos : \E c \in Cols :
          Count(norm_pos, i, c) > 1 /\ norm_spec.val[i][c] = Zero

\* the frame and the variance map given to aperture_extract are constant
ConstantInput ==
    /\ \A row \in Rows : \A c \in Cols : frame[ext_int][row][c] = frame[ext_int][0][0]
    /\ \A row \in Rows : \A c \in Cols : variance[ext_int][row][c] = variance[ext_int][0][0]

\* clamping left the window of this trace position as it was
Unclamped(p) == RawLo(p) >= 0 /\ RawHi(p) < NRows

InSomeRun(table, k) ==
    \E i \in DOMAIN table : \E c \in DOMAIN table[i] : k \in Run(table, i, c)

\* C7: norm_flux_coo leaves its sample list and its index table as they
\* were; the list returned has the length of the input, the offset and
\* column fields of the input, and the flux and variance of the input for
\* every sample in no non-empty run of the index table.
C7_InputUntouched ==
    [][pc' = "normalized" =>
          /\ pix_array' = pix_array
          /\ col_array_pos' = col_array_pos
          /\ Len(norm_array') = Len(pix_array)
          /\ \A k \in 0..(Len(pix_array) - 1) :
                /\ norm_array'[k + 1][1] = pix_array[k + 1][1]
                /\ norm_array'[k + 1][4] = pix_array[k + 1][4]
                /\ ~InSomeRun(norm_pos', k) => norm_array'[k + 1] = pix_array[k + 1]]_vars

C7_Witness ==
    /\ pc = "normalized"
    /\ \E k \in 0..(Len(pix_array) - 1) :
          ~InSomeRun(norm_pos, k) /\ norm_array[k + 1] = pix_array[k + 1]
    /\ \E k \in 0..(Len(pix_array) - 1) :
          /\ InSomeRun(norm_pos, k)
          /\ norm_array[k + 1][2] # pix_array[k + 1][2]
          /\ norm_array[k + 1][3] # pix_array[k + 1][3]

\* C8: the starting offset of every (integration, column) is the total of
\* the counts of the pairs before it in integration-major order, the cursor
\* running on from one integration to the next; a column with an out-of-range
\* trace has count 0 and the next pair starts at the same offset.
C8_CursorRunsOn ==
    Collected =>
        \A i \in Ints : \A c \in Cols :
            LET k == i * NCols + c
            IN  /\ Start(col_array_pos, i, c) = CountBefore(col_array_pos, k)
                /\ OutOfRange(ord_pos[i][c]) =>
                      /\ Count(col_array_pos, i, c) = 0
                      /\ k + 1 < NInts * NCols =>
                            Start(col_array_pos, (k + 1) \div NCols, (k + 1) % NCols)
                               = Start(col_array_pos, i, c)

C8_Witness ==
    /\ pc = "collected"
    /\ \E i \in Ints : \E c \in Cols :
          /\ i > 0
          /\ Start(col_array_pos, i, 0) > 0
          /\ OutOfRange(ord_pos[i][c])
          /\ Start(col_array_pos, i, c) > 0
          /\ \E c2 \in Cols : c2 > c /\ Count(col_array_pos, i, c2) > 0

\* C9: the box sum of aperture_extract over one integration equals, column
\* by column, the sum of the flux (variance) fields of the run flux_coo
\* recorded for that integration and column, and the run holds the rows
\* i0..i1-1 of the window in ascending order with offset = row - position.
C9_SameWindow ==
    Collected =>
        \A c \in Cols :
            LET p == ord_pos[ext_int][c]
                start == Start(col_array_pos, ext_int, c)
                count == Count(col_array_pos, ext_int, c)
            IN  /\ spec_sum[c] = RSum(FieldSlice(pix_array, start, start + count, 1))
                /\ var_sum[c] = RSum(FieldSlice(pix_array, start, start + count, 2))
                /\ count = IF OutOfRange(p) THEN 0 ELSE PolicyHi(p) - PolicyLo(p)
                /\ \A j \in 0..(count - 1) :
                      LET row == PolicyLo(p) + j
                      IN  pix_array[start + j + 1] =
                             << RSub(IntToRat(row), p), frame[ext_int][row][c],
                                variance[ext_int][row][c], IntToRat(c) >>

C9_Witness ==
    /\ pc = "collected"
    /\ \E c \in Cols :
          /\ Count(col_array_pos, ext_int, c) > 1
          /\ spec_sum[c] # Zero
          /\ RawHi(ord_pos[ext_int][c]) > NRows - 1
    /\ \E c \in Cols : Start(col_array_pos, ext_int, c) > 0

====
